---- MODULE Spec2Model ----
(***************************************************************************)
(* Model of src/app.py, the "Buscador de Cafes" page: the loader           *)
(* cargar_cafes, the geocoding chain geocodificar /                        *)
(* geocodificar_desde_cafes / resolver_coordenadas, the radius filter      *)
(* cafes_en_radio, the blocks conversion distancia_en_cuadras and the      *)
(* top-to-bottom script that runs once per user interaction.               *)
(*                                                                         *)
(* Text cells are sequences of one-character strings, so that the          *)
(* comma/dot repair and the numeric coercion are computed, not assumed.    *)
(* A parsed number is [nan, neg, mant, scale]: NaN when nan holds, else    *)
(* (-1)^neg * mant / 10^scale with no trailing zero in the fraction.       *)
(* Coordinates are read in kilometres on a planar grid and distances are   *)
(* whole metres.                                                           *)
(***************************************************************************)
EXTENDS Integers, Sequences, FiniteSets, TLC

VARIABLES
    ciudad,                 \* st.selectbox "Ciudad"
    cafes,                  \* cargar_cafes(GID_CAFES[ciudad]) of the current run
    recomendacion,          \* st.session_state["recomendacion"]
    recomendacion_ciudad,   \* st.session_state["recomendacion_ciudad"]
    last,                   \* what the last script run did and displayed
    txt, num,               \* a LAT/LONG cell and its value after the numeric repair
    dist_m, cuadras,        \* a distance in metres and the blocks shown for it
    columnas, carga         \* the columns of a source sheet and how the page load ended

vars == <<ciudad, cafes, recomendacion, recomendacion_ciudad, last,
          txt, num, dist_m, cuadras, columnas, carga>>

None == "None"
\* a missing value in a numeric column
NaN == [nan |-> TRUE, neg |-> FALSE, mant |-> 0, scale |-> 0]
Pendiente == "pendiente"

----------------------------------------------------------------------------
(* Bounds of the model *)

MaxLen == 3        \* longest enumerated LAT/LONG text
MaxMetros == 250   \* largest distance given to distancia_en_cuadras
MaxRows == 2       \* rows of a source sheet
MaxSlider == 1     \* slider positions modelled: 0.5 km .. MaxSlider * 0.5 km

----------------------------------------------------------------------------
(* Numeric repair of the loader: Series.str.replace and pd.to_numeric *)

Digits == {"0", "1", "2", "3", "4", "5", "6", "7", "8", "9"}

DigitVal(c) ==
    CASE c = "0" -> 0 [] c = "1" -> 1 [] c = "2" -> 2 [] c = "3" -> 3
      [] c = "4" -> 4 [] c = "5" -> 5 [] c = "6" -> 6 [] c = "7" -> 7
      [] c = "8" -> 8 [] c = "9" -> 9

IsDigit(c) == c \in Digits

RECURSIVE DigitsValue(_)
DigitsValue(ds) ==
    IF ds = <<>> THEN 0
    ELSE 10 * DigitsValue(SubSeq(ds, 1, Len(ds) - 1)) + DigitVal(ds[Len(ds)])

RECURSIVE Pow10(_)
Pow10(n) == IF n = 0 THEN 1 ELSE 10 * Pow10(n - 1)

RECURSIVE Normal(_, _, _)
Normal(neg, mant, scale) ==
    IF mant = 0 THEN [nan |-> FALSE, neg |-> FALSE, mant |-> 0, scale |-> 0]
    ELSE IF scale > 0 /\ mant % 10 = 0 THEN Normal(neg, mant \div 10, scale - 1)
    ELSE [nan |-> FALSE, neg |-> neg, mant |-> mant, scale |-> scale]

\* variant: the text is coerced as it is
str_replace_keep(s) == s

\* s.str.replace(",", ".", regex=False): every comma becomes a dot
str_replace(s) ==
    [i \in 1..Len(s) |-> IF s[i] = "," THEN "." ELSE s[i]]

\* pd.to_numeric(..., errors="coerce"): an optional sign, digits with at most
\* one decimal point and at least one digit; anything else, and the blank cell
\* (which read_csv loads as NaN), is NaN
to_numeric(s) ==
    IF s = <<>> THEN NaN
    ELSE
      LET neg   == s[1] = "-"
          body  == IF neg THEN Tail(s) ELSE s
          dots  == {i \in 1..Len(body) : body[i] = "."}
          ok    == /\ \A i \in 1..Len(body) : body[i] \in Digits \cup {"."}
                   /\ Cardinality(dots) <= 1
                   /\ \E i \in 1..Len(body) : body[i] \in Digits
          scale == IF dots = {} THEN 0 ELSE Len(body) - (CHOOSE i \in dots : TRUE)
      IN  IF ok THEN Normal(neg, DigitsValue(SelectSeq(body, IsDigit)), scale)
          ELSE NaN

\* df["LAT"] = pd.to_numeric(df["LAT"].str.replace(",", "."), errors="coerce")
reparar(s) == to_numeric(str_replace(s))

\* a parsed coordinate (kilometres on the grid) in whole metres
Metros(n) ==
    LET m == (n.mant * 1000) \div Pow10(n.scale)
    IN  IF n.neg THEN 0 - m ELSE m

----------------------------------------------------------------------------
(* distancia_en_cuadras *)

Max(a, b) == IF a >= b THEN a ELSE b

\* variant: blocks of 87 metres
distancia_en_cuadras_87(metros) == Max((metros + 86) \div 87, 1)

\* metros = dist_km * 1000; cuadras = int((metros + 99) // 100); max(cuadras, 1)
distancia_en_cuadras(metros) == Max((metros + 99) \div 100, 1)

----------------------------------------------------------------------------
(* Columns of the source sheet *)

Obligatorias == {"CAFE", "UBICACION", "TOSTADOR", "PUNTAJE", "LAT", "LONG"}

KeyError == "KeyError"

\* variant: only LAT is read
cargar_cafes_columnas_sin_long(cols) ==
    IF "LAT" \notin cols THEN KeyError ELSE "tabla"

\* cargar_cafes reads df["LAT"] and df["LONG"] and no other column by name
cargar_cafes_columnas(cols) ==
    IF "LAT" \notin cols THEN KeyError
    ELSE IF "LONG" \notin cols THEN KeyError
    ELSE "tabla"

\* lines 181-200: cafes = cargar_cafes(...), then cafes["TOSTADOR"] for the
\* roaster selector; nothing on the page reads PUNTAJE
cargar_pagina(cols) ==
    IF cargar_cafes_columnas(cols) = KeyError THEN "error_en_carga"
    ELSE IF "TOSTADOR" \notin cols THEN "error_tras_carga"
    ELSE "ok"

----------------------------------------------------------------------------
(* Source sheets and the loaded table *)

CityList == <<"Mar del Plata", "Buenos Aires", "La Plata">>

\* GID_CAFES.keys()
Cities == {CityList[i] : i \in 1..Len(CityList)}

\* the rows a sheet is made of: two cafes with coordinates (one written with
\* a decimal comma), one with a blank LAT, one with a LONG no number is read from
Filas ==
    { [UBICACION |-> "colon", TOSTADOR |-> "T1",
       LAT |-> <<"0">>, LONG |-> <<"0">>],
      [UBICACION |-> "luro", TOSTADOR |-> "T2",
       LAT |-> <<"0", ",", "5">>, LONG |-> <<"0">>],
      [UBICACION |-> "mitre", TOSTADOR |-> "T1",
       LAT |-> <<>>, LONG |-> <<"0">>],
      [UBICACION |-> "alem", TOSTADOR |-> "T2",
       LAT |-> <<"0">>, LONG |-> <<"1", ".", "2", ",", "5">>] }

Hojas == UNION { [1..n -> Filas] : n \in 0..MaxRows }

\* the CAFE column: one name per row of the sheet
Nombres == <<"cafe1", "cafe2", "cafe3", "cafe4">>

ConCoordenadas(r) == ~r.LAT.nan /\ ~r.LONG.nan

RECURSIVE dropna(_)
dropna(df) ==
    IF df = <<>> THEN <<>>
    ELSE IF ConCoordenadas(df[1]) THEN <<df[1]>> \o dropna(Tail(df))
    ELSE dropna(Tail(df))

\* the LAT and LONG columns made numeric, and the rows where both are numbers.
\* A row keeps the index it has in the sheet; from here on a coordinate is
\* held in whole metres.
cargar_cafes(hoja) ==
    LET df == [i \in 1..Len(hoja) |->
                 [idx |-> i, CAFE |-> Nombres[i], UBICACION |-> hoja[i].UBICACION,
                  TOSTADOR |-> hoja[i].TOSTADOR,
                  LAT |-> reparar(hoja[i].LAT), LONG |-> reparar(hoja[i].LONG)]]
        validas == dropna(df)
    IN  [i \in 1..Len(validas) |->
           [validas[i] EXCEPT !.LAT = Metros(@), !.LONG = Metros(@)]]

\* the tables cargar_cafes can return
Tablas == { cargar_cafes(hoja) : hoja \in Hojas }

----------------------------------------------------------------------------
(* Geocoding *)

\* what the online geocoder can answer: a location, nothing, or a timeout
RefPoints == {<<0, 0>>, <<0 - 300, 0>>}
SinCoords == <<0, 0>>
Respuestas ==
    { [tipo |-> "ok", coords |-> c] : c \in RefPoints }
      \cup { [tipo |-> t, coords |-> SinCoords] : t \in {"timeout", "sin_resultado"} }

\* the address box: blank, or a street that some sheets have a cafe on
Direcciones == {<<>>, <<"colon">>}

\* variant: a failed call is made a second time
geocodificar_con_reintento(direccion, resp) ==
    IF direccion = <<>> THEN [hay |-> FALSE, coords |-> SinCoords, llamadas |-> 0]
    ELSE IF resp.tipo = "ok" THEN [hay |-> TRUE, coords |-> resp.coords, llamadas |-> 1]
    ELSE [hay |-> FALSE, coords |-> SinCoords, llamadas |-> 2]

\* blank address: None without a call; otherwise one geo.geocode call, whose
\* exception or empty answer gives None
geocodificar(direccion, resp) ==
    IF direccion = <<>> THEN [hay |-> FALSE, coords |-> SinCoords, llamadas |-> 0]
    ELSE IF resp.tipo = "ok" THEN [hay |-> TRUE, coords |-> resp.coords, llamadas |-> 1]
    ELSE [hay |-> FALSE, coords |-> SinCoords, llamadas |-> 1]

\* score(row): the tokens of the address found in "UBICACION_NORM CAFE_NORM"
MATCH(tokens, row) ==
    Cardinality({i \in 1..Len(tokens) : tokens[i] = row.UBICACION})

\* the outcomes of geocodificar_desde_cafes: None, an exception on the empty
\* table (iloc[0] of no rows), or the coordinates of a row of maximal MATCH
\* (sort_values("MATCH") with the default sort leaves the order of ties open)
geocodificar_desde_cafes(direccion, cafes_df) ==
    IF direccion = <<>> THEN { [tipo |-> "None", coords |-> SinCoords] }
    ELSE IF cafes_df = <<>> THEN { [tipo |-> "Excepcion", coords |-> SinCoords] }
    ELSE
      LET n == Len(cafes_df)
          mejores == {i \in 1..n : \A j \in 1..n :
                         MATCH(direccion, cafes_df[j]) <= MATCH(direccion, cafes_df[i])}
      IN  { IF MATCH(direccion, cafes_df[i]) <= 0
            THEN [tipo |-> "None", coords |-> SinCoords]
            ELSE [tipo |-> "coords",
                  coords |-> <<cafes_df[i].LAT, cafes_df[i].LONG>>] :
            i \in mejores }

\* (coords, "online"), else (coords_local, "local"), else (None, None)
resolver_coordenadas(direccion, resp, cafes_df) ==
    LET g == geocodificar(direccion, resp)
    IN  IF g.hay
        THEN { [hay |-> TRUE, coords |-> g.coords, origen |-> "online",
                llamadas |-> g.llamadas, excepcion |-> FALSE] }
        ELSE { [hay |-> l.tipo = "coords", coords |-> l.coords,
                origen |-> IF l.tipo = "coords" THEN "local" ELSE None,
                llamadas |-> g.llamadas, excepcion |-> l.tipo = "Excepcion"] :
               l \in geocodificar_desde_cafes(direccion, cafes_df) }

----------------------------------------------------------------------------
(* Distances, radius filter and sort *)

Abs(x) == IF x < 0 THEN 0 - x ELSE x

\* geodesic(coords, (LAT, LONG)) on the planar grid, in metres
geodesic(coords, r) ==
    Abs(coords[1] - r.LAT) + Abs(coords[2] - r.LONG)

ConDistancia(cafes_df, coords) ==
    [i \in 1..Len(cafes_df) |->
        [idx |-> cafes_df[i].idx, CAFE |-> cafes_df[i].CAFE,
         UBICACION |-> cafes_df[i].UBICACION, TOSTADOR |-> cafes_df[i].TOSTADOR,
         LAT |-> cafes_df[i].LAT, LONG |-> cafes_df[i].LONG,
         DIST_KM |-> geodesic(coords, cafes_df[i])]]

RECURSIVE Filtrar(_, _, _)
Filtrar(s, campo, limite) ==
    IF s = <<>> THEN <<>>
    ELSE IF s[1][campo] <= limite
         THEN <<s[1]>> \o Filtrar(Tail(s), campo, limite)
         ELSE Filtrar(Tail(s), campo, limite)

\* variant: the comparison of the radius filter turned round
RECURSIVE FiltrarFuera(_, _, _)
FiltrarFuera(s, campo, limite) ==
    IF s = <<>> THEN <<>>
    ELSE IF s[1][campo] >= limite
         THEN <<s[1]>> \o FiltrarFuera(Tail(s), campo, limite)
         ELSE FiltrarFuera(Tail(s), campo, limite)

cafes_en_radio_al_reves(cafes_df, coords, radio) ==
    FiltrarFuera(ConDistancia(cafes_df, coords), "DIST_KM", radio)

\* cafes_calc[cafes_calc["DIST_KM"] <= radio_km]
cafes_en_radio(cafes_df, coords, radio) ==
    Filtrar(ConDistancia(cafes_df, coords), "DIST_KM", radio)

\* on a table of no rows DataFrame.apply(axis=1) gives a frame or a series
\* depending on the installed pandas and geopy, and the assignment to DIST_KM
\* then raises or not
cafes_en_radio_resultados(cafes_df, coords, radio) ==
    IF cafes_df = <<>>
    THEN { [excepcion |-> e, filas |-> <<>>] : e \in BOOLEAN }
    ELSE { [excepcion |-> FALSE, filas |-> cafes_en_radio(cafes_df, coords, radio)] }

RECURSIVE FiltrarTostador(_, _)
FiltrarTostador(s, t) ==
    IF s = <<>> THEN <<>>
    ELSE IF s[1].TOSTADOR = t
         THEN <<s[1]>> \o FiltrarTostador(Tail(s), t)
         ELSE FiltrarTostador(Tail(s), t)

Ordenado(s) == \A i \in 1..(Len(s) - 1) : s[i].DIST_KM <= s[i + 1].DIST_KM

Reordenes(s) ==
    { [i \in 1..Len(s) |-> s[p[i]]] : p \in Permutations(1..Len(s)) }

\* variant: the rows stay in table order
sort_values_sin_ordenar(s) == {s}

\* resultado.sort_values("DIST_KM"): kind defaults to "quicksort", which
\* pandas documents as not stable, so rows of equal DIST_KM come in any order
sort_values(s) == { o \in Reordenes(s) : Ordenado(o) }

\* ["Todos"] + sorted(cafes["TOSTADOR"].dropna().unique())
tostadores_disp(cafes_df) ==
    {"Todos"} \cup {cafes_df[i].TOSTADOR : i \in 1..Len(cafes_df)}

\* the slider: 0.5 .. 5.0 km in steps of 0.5
PASO_SLIDER == 500
Radios == {PASO_SLIDER * i : i \in 1..MaxSlider}

RADIO_RECOMENDACION == 750

----------------------------------------------------------------------------
(* The script: one run from top to bottom per interaction *)

\* session_state["recomendacion"] is None, or <<dict>>
NoRec == <<>>

normalizar_texto(valor, fallback) ==
    IF valor = "" \/ valor = "nan" THEN fallback ELSE valor

Dict(row, c) ==
    [CAFE |-> normalizar_texto(row.CAFE, "Sin dato"),
     UBICACION |-> normalizar_texto(row.UBICACION, "Sin dato"),
     TOSTADOR |-> normalizar_texto(row.TOSTADOR, "Sin tostador cargado"),
     DIST_KM |-> row.DIST_KM, LAT |-> row.LAT, LONG |-> row.LONG, CIUDAD |-> c]

NoBotones == [buscar |-> FALSE, recomendar |-> FALSE, otra |-> FALSE]

Inicio(rec, rc) ==
    [rec |-> rec, rec_ciudad |-> rc, outcome |-> "idle", resultado |-> <<>>,
     coords |-> SinCoords, llamadas |-> 0, stop |-> FALSE]

Parar(r, outcome, res) ==
    [r EXCEPT !.outcome = outcome, !.stop = TRUE,
              !.coords = res.coords, !.llamadas = @ + res.llamadas]

\* variant: the branch does not store recomendacion_ciudad
RamaRecomendarSinCiudad(r, c, df, inp) ==
    UNION {
      IF res.excepcion THEN {Parar(r, "excepcion", res)}
      ELSE IF ~res.hay THEN {Parar(r, "no_encontrada", res)}
      ELSE UNION {
        IF rs.excepcion THEN {Parar(r, "excepcion", res)}
        ELSE IF rs.filas = <<>>
        THEN {[Parar(r, "sin_recomendados", res) EXCEPT !.rec = NoRec]}
        ELSE { [r EXCEPT !.rec = <<Dict(rs.filas[k], c)>>,
                         !.outcome = "recomendado", !.coords = res.coords,
                         !.llamadas = @ + res.llamadas] :
               k \in 1..Len(rs.filas) } :
        rs \in cafes_en_radio_resultados(df, res.coords, RADIO_RECOMENDACION) } :
      res \in resolver_coordenadas(inp.direccion, inp.resp, df) }

\* lines 220-251: "Cafe recomendado"
RamaRecomendar(r, c, df, inp) ==
    UNION {
      IF res.excepcion THEN {Parar(r, "excepcion", res)}
      ELSE IF ~res.hay THEN {Parar(r, "no_encontrada", res)}
      ELSE UNION {
        IF rs.excepcion THEN {Parar(r, "excepcion", res)}
        ELSE IF rs.filas = <<>>
        THEN {[Parar(r, "sin_recomendados", res) EXCEPT !.rec = NoRec]}
        ELSE { [r EXCEPT !.rec = <<Dict(rs.filas[k], c)>>, !.rec_ciudad = c,
                         !.outcome = "recomendado", !.coords = res.coords,
                         !.llamadas = @ + res.llamadas] :
               k \in 1..Len(rs.filas) } :
        rs \in cafes_en_radio_resultados(df, res.coords, RADIO_RECOMENDACION) } :
      res \in resolver_coordenadas(inp.direccion, inp.resp, df) }

\* lines 334-352: "Buscar cafes"
RamaBuscar(r, c, df, inp) ==
    UNION {
      IF res.excepcion THEN {Parar(r, "excepcion", res)}
      ELSE IF ~res.hay THEN {Parar(r, "no_encontrada", res)}
      ELSE UNION {
        IF rs.excepcion THEN {Parar(r, "excepcion", res)}
        ELSE
          LET filtrado == IF inp.filtro # "Todos"
                          THEN FiltrarTostador(rs.filas, inp.filtro)
                          ELSE rs.filas
          IN  { IF o = <<>> THEN Parar(r, "sin_cafes", res)
                ELSE [r EXCEPT !.outcome = "resultados", !.resultado = o,
                               !.coords = res.coords,
                               !.llamadas = @ + res.llamadas] :
                o \in sort_values(filtrado) } :
        rs \in cafes_en_radio_resultados(df, res.coords, inp.radio) } :
      res \in resolver_coordenadas(inp.direccion, inp.resp, df) }

RECURSIVE Script(_, _, _, _, _, _)

\* lines 305-332: "Otra recomendacion", which ends in rerun_app(): the script
\* runs again with no button pressed
RamaOtra(r, c, df, inp) ==
    UNION {
      IF res.excepcion THEN {Parar(r, "excepcion", res)}
      ELSE IF ~res.hay THEN {Parar(r, "no_encontrada", res)}
      ELSE UNION {
        IF rs.excepcion THEN {Parar(r, "excepcion", res)}
        ELSE IF rs.filas = <<>> THEN {Parar(r, "sin_recomendados", res)}
        ELSE { [rr EXCEPT !.outcome = "recomendado", !.stop = TRUE,
                          !.coords = res.coords,
                          !.llamadas = @ + r.llamadas + res.llamadas] :
               rr \in UNION { Script(NoBotones, c, df, <<Dict(rs.filas[k], c)>>,
                                     r.rec_ciudad, inp) :
                              k \in 1..Len(rs.filas) } } :
        rs \in cafes_en_radio_resultados(df, res.coords, RADIO_RECOMENDACION) } :
      res \in resolver_coordenadas(inp.direccion, inp.resp, df) }

\* lines 253-257: the card, and with it the "Otra recomendacion" button
TarjetaVisible(rec, rc, c) == rec # NoRec /\ rc = c

\* lines 212-352 in order: recommend, card and its button, search
Script(b, c, df, rec, rc, inp) ==
    LET S1 == IF b.recomendar THEN RamaRecomendar(Inicio(rec, rc), c, df, inp)
              ELSE {Inicio(rec, rc)}
        S2 == UNION { IF ~r.stop /\ TarjetaVisible(r.rec, r.rec_ciudad, c) /\ b.otra
                      THEN RamaOtra(r, c, df, inp) ELSE {r} : r \in S1 }
    IN  UNION { IF ~r.stop /\ b.buscar THEN RamaBuscar(r, c, df, inp) ELSE {r} :
                r \in S2 }

Ultimo(accion, inp, r) ==
    [accion |-> accion,
     online |-> IF accion = "ninguna" THEN "nada"
                ELSE IF inp.direccion = <<>> THEN "vacia"
                ELSE IF inp.resp.tipo = "ok" THEN "ok" ELSE "fallo",
     radio |-> inp.radio, filtro |-> inp.filtro,
     coords |-> r.coords, outcome |-> r.outcome, resultado |-> r.resultado,
     llamadas |-> r.llamadas]

SinEntrada ==
    [direccion |-> <<>>, resp |-> [tipo |-> "sin_resultado", coords |-> SinCoords],
     radio |-> 0, filtro |-> "Todos"]

\* an address and the answer of the geocoder to it (none is asked for a blank)
Consultas ==
    { q \in [direccion : Direcciones, resp : Respuestas] :
        q.direccion = <<>> => q.resp = SinEntrada.resp }

Entradas(df) ==
    { [direccion |-> q.direccion, resp |-> q.resp, radio |-> ra, filtro |-> f] :
        q \in Consultas, ra \in Radios, f \in tostadores_disp(df) }

EntradasRecomendar ==
    { [direccion |-> q.direccion, resp |-> q.resp, radio |-> 0, filtro |-> "Todos"] :
        q \in Consultas }

----------------------------------------------------------------------------
(* Actions *)

Puras == <<txt, num, dist_m, cuadras, columnas, carga>>
Pagina == <<ciudad, cafes, recomendacion, recomendacion_ciudad, last>>

\* what a run leaves behind: the session state and the page
Guardar(accion, inp, r) ==
    /\ recomendacion' = r.rec
    /\ recomendacion_ciudad' = r.rec_ciudad
    /\ last' = Ultimo(accion, inp, r)
    /\ UNCHANGED <<ciudad, cafes, Puras>>

\* the city selector changes and the script runs with no button pressed; the
\* sheet of the new city holds what RecargarHoja finds in it
SeleccionarCiudad ==
    \E c \in Cities :
      \E r \in Script(NoBotones, c, cafes, recomendacion,
                      recomendacion_ciudad, SinEntrada) :
        /\ ciudad' = c
        /\ recomendacion' = r.rec
        /\ recomendacion_ciudad' = r.rec_ciudad
        /\ last' = Ultimo("ninguna", SinEntrada, r)
        /\ UNCHANGED <<cafes, Puras>>

\* the cached table expires (ttl=600) and the next run reads the sheet again,
\* with any content
RecargarHoja ==
    \E df \in Tablas :
      \E r \in Script(NoBotones, ciudad, df, recomendacion,
                      recomendacion_ciudad, SinEntrada) :
        /\ cafes' = df
        /\ recomendacion' = r.rec
        /\ recomendacion_ciudad' = r.rec_ciudad
        /\ last' = Ultimo("ninguna", SinEntrada, r)
        /\ UNCHANGED <<ciudad, Puras>>

ClickBuscar ==
    \E inp \in Entradas(cafes) :
      \E r \in Script([NoBotones EXCEPT !.buscar = TRUE], ciudad, cafes,
                      recomendacion, recomendacion_ciudad, inp) :
        Guardar("buscar", inp, r)

ClickRecomendado ==
    \E inp \in EntradasRecomendar :
      \E r \in Script([NoBotones EXCEPT !.recomendar = TRUE], ciudad, cafes,
                      recomendacion, recomendacion_ciudad, inp) :
        Guardar("recomendar", inp, r)

\* the button exists only on a page that shows the card
ClickOtra ==
    /\ TarjetaVisible(recomendacion, recomendacion_ciudad, ciudad)
    /\ \E inp \in EntradasRecomendar :
        \E r \in Script([NoBotones EXCEPT !.otra = TRUE], ciudad, cafes,
                        recomendacion, recomendacion_ciudad, inp) :
          Guardar("otra", inp, r)

PurasInit ==
    /\ txt = <<>> /\ num = <<>>
    /\ dist_m = 0 /\ cuadras = 0
    /\ columnas = {} /\ carga = Pendiente

PaginaInit ==
    /\ ciudad = CityList[1]
    /\ cafes = <<>>
    /\ recomendacion = NoRec
    /\ recomendacion_ciudad = None
    /\ last = Ultimo("ninguna", SinEntrada, Inicio(NoRec, None))

Init ==
    /\ ciudad = CityList[1]
    /\ cafes \in Tablas
    /\ recomendacion = NoRec
    /\ recomendacion_ciudad = None
    /\ last = Ultimo("ninguna", SinEntrada, Inicio(NoRec, None))
    /\ PurasInit

Next ==
    \/ SeleccionarCiudad
    \/ RecargarHoja
    \/ ClickBuscar
    \/ ClickRecomendado
    \/ ClickOtra

Spec == Init /\ [][Next]_vars

----------------------------------------------------------------------------
(* The numeric repair alone *)

Alfabeto == {"-", "0", "5", ".", ","}

Ejemplos ==
    { <<"-", "3", "8", ",", "0", "0", "5", "6">>,
      <<"1", ".", "2", "3", "4", ",", "5", "6", "7">>,
      <<"5", ".", "5">> }

Textos == UNION { [1..n -> Alfabeto] : n \in 0..MaxLen } \cup Ejemplos

InitNum ==
    /\ PaginaInit
    /\ txt \in Textos /\ num = <<>>
    /\ dist_m = 0 /\ cuadras = 0
    /\ columnas = {} /\ carga = Pendiente

Reparar ==
    /\ num = <<>>
    /\ num' = <<reparar(txt)>>
    /\ UNCHANGED <<Pagina, txt, dist_m, cuadras, columnas, carga>>

NextNum == Reparar

SpecNum == InitNum /\ [][NextNum]_vars

----------------------------------------------------------------------------
(* The blocks conversion alone *)

InitCuadras ==
    /\ PaginaInit
    /\ txt = <<>> /\ num = <<>>
    /\ dist_m \in 0..MaxMetros /\ cuadras = 0
    /\ columnas = {} /\ carga = Pendiente

Cuadras ==
    /\ cuadras = 0
    /\ cuadras' = distancia_en_cuadras(dist_m)
    /\ UNCHANGED <<Pagina, txt, num, dist_m, columnas, carga>>

NextCuadras == Cuadras

SpecCuadras == InitCuadras /\ [][NextCuadras]_vars

----------------------------------------------------------------------------
(* The page load on a sheet with any set of columns *)

Columnas == Obligatorias \cup {"INSTAGRAM"}

InitCarga ==
    /\ PaginaInit
    /\ txt = <<>> /\ num = <<>>
    /\ dist_m = 0 /\ cuadras = 0
    /\ columnas \in SUBSET Columnas /\ carga = Pendiente

Cargar ==
    /\ carga = Pendiente
    /\ carga' = cargar_pagina(columnas)
    /\ UNCHANGED <<Pagina, txt, num, dist_m, cuadras, columnas>>

NextCarga == Cargar

SpecCarga == InitCarga /\ [][NextCarga]_vars

----------------------------------------------------------------------------
(* Properties of the search *)

Buscado == last.accion = "buscar" /\ last.outcome \in {"resultados", "sin_cafes"}

Cumple(r, coords, radio, filtro) ==
    /\ geodesic(coords, r) <= radio
    /\ filtro = "Todos" \/ r.TOSTADOR = filtro

IdsResultado == {last.resultado[i].idx : i \in 1..Len(last.resultado)}

\* C1: after a search, a row of the loaded table is in the result if and only
\* if its distance to the reference point is at most the radius and the
\* roaster selection is "Todos" or its TOSTADOR; every result row carries that
\* distance; and with radius 0 cafes_en_radio returns exactly the rows at
\* distance 0.
C1_ResultadoExacto ==
    /\ Buscado =>
         /\ IdsResultado =
              {cafes[j].idx : j \in {k \in 1..Len(cafes) :
                  Cumple(cafes[k], last.coords, last.radio, last.filtro)}}
         /\ Cardinality(IdsResultado) = Len(last.resultado)
         /\ \A i \in 1..Len(last.resultado) :
              /\ last.resultado[i].DIST_KM = geodesic(last.coords, last.resultado[i])
              /\ last.resultado[i].DIST_KM <= last.radio
    /\ \A c \in RefPoints :
         LET r0 == cafes_en_radio(cafes, c, 0)
         IN  {r0[i].idx : i \in 1..Len(r0)} =
               {cafes[j].idx : j \in {k \in 1..Len(cafes) : geodesic(c, cafes[k]) = 0}}

C1_Witness ==
    /\ last.accion = "buscar" /\ last.outcome = "resultados"
    /\ last.filtro # "Todos"
    /\ \E j \in 1..Len(cafes) :
         /\ cafes[j].idx \notin IdsResultado
         /\ geodesic(last.coords, cafes[j]) > last.radio

Distancias(s) == [i \in 1..Len(s) |-> s[i].DIST_KM]

C3_OrdenEstable ==
    last.accion = "buscar" =>
        \A i, j \in 1..Len(last.resultado) :
            (i < j /\ last.resultado[i].DIST_KM = last.resultado[j].DIST_KM)
                => last.resultado[i].idx < last.resultado[j].idx

\* C4: on a table with no usable coordinates (cargar_cafes returned no rows) a
\* search or a recommendation ends in the not-found message or a no-cafes
\* warning, never in an exception.
C4_TablaVaciaSinExcepcion ==
    (cafes = <<>> /\ last.accion \in {"buscar", "recomendar"})
        => last.outcome \in {"no_encontrada", "sin_cafes", "sin_recomendados"}

\* C6: when the online geocoder fails or the address is blank, the action ends
\* in the not-found outcome: no exception, no result table.
C6_FalloTerminaNoEncontrada ==
    (last.accion \in {"buscar", "recomendar", "otra"}
        /\ last.online \in {"fallo", "vacia"})
        => (last.outcome = "no_encontrada" /\ last.resultado = <<>>)

\* C9: a user action, with the rerun it may trigger, calls the geocoding
\* service at most once.
C9_UnaLlamadaPorAccion == last.llamadas <= 1

C9_Witness ==
    /\ last.accion = "otra" /\ last.outcome = "recomendado"
    /\ last.llamadas = 1

\* C10: a stored recommendation carries the city stored beside it and a
\* distance of at most 0.75 km, so the card is shown only for a cafe of the
\* selected city.
C10_RecomendacionDeLaCiudad ==
    recomendacion # NoRec =>
        /\ recomendacion[1].CIUDAD = recomendacion_ciudad
        /\ recomendacion[1].DIST_KM <= RADIO_RECOMENDACION
        /\ TarjetaVisible(recomendacion, recomendacion_ciudad, ciudad)
             => recomendacion[1].CIUDAD = ciudad

C10_Witness ==
    /\ last.accion = "otra" /\ last.outcome = "recomendado"
    /\ recomendacion # NoRec
    /\ recomendacion[1].CIUDAD # CityList[1]

----------------------------------------------------------------------------
(* Properties of the numeric repair *)

Cuenta(s, ch) == Cardinality({i \in 1..Len(s) : s[i] = ch})

NoEs(ch) == ch # "."

\* the number a text denotes when sep is its decimal mark
ValorDecimal(s, sep) ==
    LET neg  == s # <<>> /\ s[1] = "-"
        body == IF neg THEN Tail(s) ELSE s
        seps == {i \in 1..Len(body) : body[i] = sep}
        k    == IF seps = {} THEN Len(body) + 1 ELSE CHOOSE i \in seps : TRUE
        ent  == SubSeq(body, 1, k - 1)
        frac == SubSeq(body, k + 1, Len(body))
    IN  IF /\ Cardinality(seps) <= 1
           /\ \A i \in 1..Len(ent) : ent[i] \in Digits
           /\ \A i \in 1..Len(frac) : frac[i] \in Digits
           /\ Len(ent) + Len(frac) > 0
        THEN Normal(neg, DigitsValue(ent \o frac), Len(frac))
        ELSE NaN

Numero(neg, mant, scale) == [nan |-> FALSE, neg |-> neg, mant |-> mant, scale |-> scale]

ReglasComunes ==
    /\ (Cuenta(txt, ",") = 1 /\ Cuenta(txt, ".") = 0)
         => num[1] = ValorDecimal(txt, ",")
    /\ Cuenta(txt, ",") = 0 => num[1] = ValorDecimal(txt, ".")
    /\ txt = <<>> => num[1] = NaN
    /\ txt = <<"-", "3", "8", ",", "0", "0", "5", "6">>
         => num[1] = Numero(TRUE, 380056, 4)
    /\ txt = <<"5", ".", "5">> => num[1] = Numero(FALSE, 55, 1)

\* C5 as stated: one comma and no dot is a decimal comma; one dot and one
\* comma is a thousands dot and a decimal comma ("1.234,567" is 1234.567);
\* a canonical value is unchanged; a blank is null.
C5_TablaDeReglas ==
    num # <<>> =>
        /\ ReglasComunes
        /\ (Cuenta(txt, ",") = 1 /\ Cuenta(txt, ".") = 1)
             => num[1] = ValorDecimal(SelectSeq(txt, NoEs), ",")
        /\ txt = <<"1", ".", "2", "3", "4", ",", "5", "6", "7">>
             => num[1] = Numero(FALSE, 1234567, 3)

\* C5 amended: as stated, except that a value with one dot and one comma
\* becomes null.
C5_Reparacion ==
    num # <<>> =>
        /\ ReglasComunes
        /\ (Cuenta(txt, ",") = 1 /\ Cuenta(txt, ".") = 1) => num[1] = NaN

C5_Witness ==
    /\ num # <<>>
    /\ txt = <<"1", ".", "2", "3", "4", ",", "5", "6", "7">>
    /\ num[1] = NaN

----------------------------------------------------------------------------
(* Properties of the page load *)

\* C7 as stated: a sheet that lacks a mandatory column fails at load time.
C7_FaltaColumnaFallaEnCarga ==
    (carga # Pendiente /\ ~(Obligatorias \subseteq columnas))
        => carga = "error_en_carga"

\* C7 amended: the load fails at load time exactly when LAT or LONG is
\* absent; a sheet with both and without TOSTADOR is returned by the loader and
\* fails afterwards, at the roaster selector; any other sheet loads.
C7_CargaFallaSinLatLong ==
    carga # Pendiente =>
        /\ carga = "error_en_carga" <=> ~({"LAT", "LONG"} \subseteq columnas)
        /\ carga = "error_tras_carga"
             <=> ({"LAT", "LONG"} \subseteq columnas /\ "TOSTADOR" \notin columnas)

C7_Witness ==
    /\ carga = "ok"
    /\ "PUNTAJE" \notin columnas /\ "CAFE" \notin columnas

----------------------------------------------------------------------------
(* Properties of the blocks conversion *)

\* C8 as stated: the blocks shown are d / 87 rounded to the nearest integer.
C8_CuadrasDe87 ==
    cuadras # 0 => cuadras = (2 * dist_m + 87) \div (2 * 87)

\* C8 amended: the blocks shown are d / 100 rounded up, and at least 1.
C8_CuadrasDe100 ==
    cuadras # 0 =>
        /\ cuadras >= 1
        /\ 100 * cuadras >= dist_m
        /\ cuadras > 1 => 100 * (cuadras - 1) < dist_m

C8_Witness == cuadras = 2 /\ dist_m = 101

====
